---- MODULE Spec2Model ----
(***************************************************************************)
(* Farmer MSP dashboard (farmer.py): the load-and-reshape stage, the crop  *)
(* and year-range filter, the overview statistics and the linear trend     *)
(* prediction, as one script that is executed at startup and re-executed   *)
(* from its first line on every widget interaction.                        *)
(*                                                                         *)
(* Strings the script inspects character by character (column headers,     *)
(* price cells) are sequences of one-character strings.  A float that may  *)
(* be NaN is <<>> (NaN) or <<n>>.  Quotients are exact rationals           *)
(* [num, den] in lowest terms with den > 0; den = 0 stands for the inf/nan *)
(* a float division by zero produces.                                      *)
(***************************************************************************)
EXTENDS Integers, Sequences, FiniteSets, TLC

\* ------------------------------------------------------------------ bounds
\* The input tables enumerated: at most MaxRows rows, at most MaxCols
\* year-columns and at most MaxCells price cells.
MaxRows == 3
MaxCols == 2
MaxCells == 4
\* Number of widget interactions explored after startup.
MaxRuns == 2

\* ------------------------------------------------------- input alphabet
Digits == {"0", "1", "2", "3", "4", "5", "6", "7", "8", "9"}
Whitespace == {" ", "\n", "\t"}

\* Column headers as they stand in the file.
H_2020 == <<"K", "M", "S", " ", "2", "0", "2", "0", "-", "2", "1">>
H_2019 == <<"K", "M", "S", "\n", "2", "0", "1", "9", "-", "2", "0">>
H_short == <<"K", "M", "S", " ", "2", "0">>
H_unit == <<"U", "n", "i", "t">>
Headers == {H_2020, H_2019, H_short, H_unit}

\* Price cells as they stand in the file: missing, text, and numbers.
Cells == {<<>>, <<"x">>, <<"0">>, <<"2">>}

\* Identifier cells.
CropNames == {"Wheat", "Rice"}

NaN == <<>>
None == <<>>

\* ------------------------------------------------------ string helpers
Min(a, b) == IF a <= b THEN a ELSE b

\* s[i:] in Python terms (1-based i).
Tail_from(s, i) == SubSeq(s, i, Len(s))

StartsWith(s, pat) == Len(s) >= Len(pat) /\ SubSeq(s, 1, Len(pat)) = pat

\* str.replace(pat, rep): every non-overlapping occurrence, left to right.
RECURSIVE str_replace(_, _, _)
str_replace(s, pat, rep) ==
    IF s = <<>> THEN <<>>
    ELSE IF StartsWith(s, pat) THEN rep \o str_replace(Tail_from(s, Len(pat) + 1), pat, rep)
    ELSE <<Head(s)>> \o str_replace(Tail(s), pat, rep)

RECURSIVE lstrip(_)
lstrip(s) == IF s # <<>> /\ Head(s) \in Whitespace THEN lstrip(Tail(s)) ELSE s

RECURSIVE rstrip(_)
rstrip(s) ==
    IF s # <<>> /\ s[Len(s)] \in Whitespace THEN rstrip(SubSeq(s, 1, Len(s) - 1)) ELSE s

str_strip(s) == rstrip(lstrip(s))

\* s[:4]
str_slice4(s) == SubSeq(s, 1, Min(4, Len(s)))

\* str.isdigit(): non-empty and every character a digit.
str_isdigit(s) == s # <<>> /\ \A i \in 1..Len(s) : s[i] \in Digits

DigitVal(ch) ==
    CASE ch = "0" -> 0 [] ch = "1" -> 1 [] ch = "2" -> 2 [] ch = "3" -> 3 [] ch = "4" -> 4
      [] ch = "5" -> 5 [] ch = "6" -> 6 [] ch = "7" -> 7 [] ch = "8" -> 8 [] ch = "9" -> 9

\* int(s) for a string of digits.
RECURSIVE astype_int(_)
astype_int(s) ==
    IF s = <<>> THEN 0 ELSE 10 * astype_int(SubSeq(s, 1, Len(s) - 1)) + DigitVal(s[Len(s)])

\* pd.to_numeric(cell, errors="coerce"): the number, or NaN where the cell does
\* not parse.  The cells enumerated are unsigned integers, text and the empty
\* cell: a string of digits parses to its value, anything else is NaN.
to_numeric(cell) == IF str_isdigit(cell) THEN <<astype_int(cell)>> ELSE NaN

\* ------------------------------------------------------------ rationals
RECURSIVE GCD(_, _)
GCD(a, b) == IF b = 0 THEN a ELSE GCD(b, a % b)

Abs(a) == IF a < 0 THEN -a ELSE a

\* a / b as a float division: exact quotient, or inf/nan (den = 0) when b = 0.
Div(a, b) ==
    IF b = 0 THEN [num |-> a, den |-> 0]
    ELSE LET g == GCD(Abs(a), Abs(b))
             s == IF b < 0 THEN -1 ELSE 1
         IN  [num |-> s * (a \div g), den |-> s * (b \div g)]

Times(q, k) == IF q.den = 0 THEN q ELSE Div(q.num * k, q.den)

Zero == Div(0, 1)

\* --------------------------------------------------------- input tables
\* Sequences of distinct elements of S, of length n.
RECURSIVE InjSeqs(_, _)
InjSeqs(S, n) ==
    IF n = 0 THEN {<<>>}
    ELSE UNION {{Append(q, x) : x \in S \ {q[i] : i \in 1..Len(q)}} : q \in InjSeqs(S, n - 1)}

\* (rows, year-columns) of the input tables enumerated.
Shapes ==
    {sh \in (0..MaxRows) \X (0..Min(MaxCols, Cardinality(Headers))) : sh[1] * sh[2] <= MaxCells}

\* ------------------------------------------------------- load and reshape
\* Line 50: the identifier column read as text, price cells left as read.
read_csv(file) ==
    [columns |-> file.columns,
     Commodities |-> [i \in 1..Len(file.rows) |-> <<file.rows[i].crop>>],
     cells |-> [i \in 1..Len(file.rows) |-> file.rows[i].cells]]

\* Line 51: line breaks in the headers become spaces.
columns_replace(d) ==
    [d EXCEPT !.columns = [j \in 1..Len(d.columns) |-> str_replace(d.columns[j], <<"\n">>, <<" ">>)]]

\* Line 53, as an unpivot that leaves out the missing cells (what
\* set_index("Commodities").stack() would give).
melt_stack(d) ==
    LET R == Len(d.Commodities)
        C == Len(d.columns)
        present(r) == r.MSP # <<>>
    IN  SelectSeq([k \in 1..(R * C) |->
                      LET j == ((k - 1) \div R) + 1
                          i == ((k - 1) % R) + 1
                      IN  [Commodities |-> d.Commodities[i], Year |-> d.columns[j],
                           MSP |-> d.cells[i][j], row |-> i, col |-> j]],
                  present)

\* Line 53, as a row-major unpivot.
melt_row_major(d) ==
    LET R == Len(d.Commodities)
        C == Len(d.columns)
    IN  [k \in 1..(R * C) |->
            LET i == ((k - 1) \div C) + 1
                j == ((k - 1) % C) + 1
            IN  [Commodities |-> d.Commodities[i], Year |-> d.columns[j],
                 MSP |-> d.cells[i][j], row |-> i, col |-> j]]

\* Line 53: DataFrame.melt stacks the value columns one after the other, each
\* with all the rows in their order.  row and col record where a record came from.
melt(d) ==
    LET R == Len(d.Commodities)
        C == Len(d.columns)
    IN  [k \in 1..(R * C) |->
            LET j == ((k - 1) \div R) + 1
                i == ((k - 1) % R) + 1
            IN  [Commodities |-> d.Commodities[i], Year |-> d.columns[j],
                 MSP |-> d.cells[i][j], row |-> i, col |-> j]]

\* Line 54.
clean_year(label) == str_strip(str_replace(label, <<"K", "M", "S", " ">>, <<>>))

\* Line 55: the mask Year.str[:4].str.isdigit().
year_filter(label) == str_isdigit(str_slice4(label))

\* Line 55 on one record.
year_mask(r) == year_filter(r.Year)

\* Line 54 over the Year column.
RECURSIVE year_replace_strip(_)
year_replace_strip(m) ==
    IF Len(m) = 0 THEN <<>>
    ELSE Append(year_replace_strip(SubSeq(m, 1, Len(m) - 1)),
                [m[Len(m)] EXCEPT !.Year = clean_year(@)])

\* Line 56 over the MSP column.
RECURSIVE msp_to_numeric(_)
msp_to_numeric(m) ==
    IF Len(m) = 0 THEN <<>>
    ELSE Append(msp_to_numeric(SubSeq(m, 1, Len(m) - 1)),
                [m[Len(m)] EXCEPT !.MSP = to_numeric(@)])

\* Line 57: the new column Year_num.
RECURSIVE add_year_num(_)
add_year_num(m) ==
    IF Len(m) = 0 THEN <<>>
    ELSE LET r == m[Len(m)]
         IN  Append(add_year_num(SubSeq(m, 1, Len(m) - 1)),
                    [Commodities |-> r.Commodities, Year |-> r.Year, MSP |-> r.MSP,
                     Year_num |-> astype_int(str_slice4(r.Year)),
                     row |-> r.row, col |-> r.col])

\* Lines 53-57.
reshape(d) ==
    add_year_num(msp_to_numeric(SelectSeq(year_replace_strip(melt(d)), year_mask)))

\* Lines 50-57.
load(file) == reshape(columns_replace(read_csv(file)))

\* ---------------------------------------------------------------- widgets
SeqToSet(q) == {q[k] : k \in 1..Len(q)}

\* Series.dropna().unique(): the non-null values in order of first appearance.
RECURSIVE dropna_unique(_)
dropna_unique(q) ==
    IF q = <<>> THEN <<>>
    ELSE LET init == dropna_unique(SubSeq(q, 1, Len(q) - 1))
             x == q[Len(q)]
         IN  IF x = NaN \/ x \in SeqToSet(init) THEN init ELSE Append(init, x)

\* Line 62: the options of the crop selectbox.
crop_options(tidy) == dropna_unique([k \in 1..Len(tidy) |-> tidy[k].Commodities])

Years(tidy) == {tidy[k].Year_num : k \in 1..Len(tidy)}

SetMin(S) == CHOOSE x \in S : \A y \in S : x <= y

SetMax(S) == CHOOSE x \in S : \A y \in S : x >= y

\* Lines 63-66: the slider's bounds and its default value (the whole range).
slider_default(tidy) == <<SetMin(Years(tidy)), SetMax(Years(tidy))>>

\* The selectbox's default value: the first option, None without options.
selectbox_default(tidy) == IF crop_options(tidy) = <<>> THEN None ELSE crop_options(tidy)[1]

\* ----------------------------------------------------------------- filter
\* DataFrame.dropna(): a record with a null in any column goes.
notna(r) == r.Commodities # NaN /\ r.MSP # NaN

\* Line 69 with strict comparisons.
in_range_exclusive(r, range) == r.Year_num > range[1] /\ r.Year_num < range[2]

\* Line 69: the mask (Year_num >= lo) & (Year_num <= hi).
in_range(r, range) == r.Year_num >= range[1] /\ r.Year_num <= range[2]

\* Lines 68-69.
filter_slice(tidy, crop, range) ==
    LET is_crop(r) == crop # None /\ r.Commodities = crop
        l68 == SelectSeq(SelectSeq(tidy, is_crop), notna)
        ok(r) == in_range(r, range)
    IN  SelectSeq(l68, ok)

\* ------------------------------------------------------------------ views
RECURSIVE Sum(_)
Sum(q) == IF Len(q) = 0 THEN 0 ELSE Sum(SubSeq(q, 1, Len(q) - 1)) + q[Len(q)]

\* Series.mean(): NaN for an empty series.
mean(q) == Div(Sum([k \in 1..Len(q) |-> q[k].MSP[1]]), Len(q))

\* Line 82 with the guard first_price >= 0.
growth_unguarded(latest_price, first_price) ==
    IF first_price >= 0 THEN Times(Div(latest_price - first_price, first_price), 100) ELSE Zero

\* Line 82.
growth_pct(latest_price, first_price) ==
    IF first_price > 0 THEN Times(Div(latest_price - first_price, first_price), 100) ELSE Zero

\* Lines 78-84 with the mean taken outside the emptiness test.
overview_mean_unguarded(slice) ==
    IF slice # <<>>
    THEN [mode |-> "overview",
          latest_price |-> slice[Len(slice)].MSP[1],
          first_price |-> slice[1].MSP[1],
          avg_price |-> mean(slice),
          growth |-> growth_pct(slice[Len(slice)].MSP[1], slice[1].MSP[1])]
    ELSE [mode |-> "overview", latest_price |-> 0, first_price |-> 0,
          avg_price |-> mean(slice), growth |-> Zero]

\* Lines 78-84.
overview(slice) ==
    IF slice # <<>>
    THEN [mode |-> "overview",
          latest_price |-> slice[Len(slice)].MSP[1],
          first_price |-> slice[1].MSP[1],
          avg_price |-> mean(slice),
          growth |-> growth_pct(slice[Len(slice)].MSP[1], slice[1].MSP[1])]
    ELSE [mode |-> "overview", latest_price |-> 0, first_price |-> 0,
          avg_price |-> Zero, growth |-> Zero]

\* Lines 117 and 120 with the slope taken from uncentred sums.
fit_predict_uncentred(slice, x0) ==
    LET n == Len(slice)
        X == [k \in 1..n |-> slice[k].Year_num]
        y == [k \in 1..n |-> slice[k].MSP[1]]
        Sx == Sum(X)
        Sy == Sum(y)
        Sxx == Sum([k \in 1..n |-> X[k] * X[k]])
        Sxy == Sum([k \in 1..n |-> X[k] * y[k]])
    IN  IF Sxx = 0 THEN Div(Sy, n)
        ELSE Div(Sy * Sxx + Sxy * (n * x0 - Sx), n * Sxx)

\* Lines 117 and 120: LinearRegression().fit(X, y).predict([[x0]]).  The fit
\* centres X and y and solves the least-squares problem for the slope, taking
\* the minimum-norm solution (slope 0) when every x is the same; the
\* intercept is mean(y) - slope * mean(x).
fit_predict(slice, x0) ==
    LET n == Len(slice)
        X == [k \in 1..n |-> slice[k].Year_num]
        y == [k \in 1..n |-> slice[k].MSP[1]]
        Sx == Sum(X)
        Sy == Sum(y)
        Sxx == n * Sum([k \in 1..n |-> X[k] * X[k]]) - Sx * Sx
        Sxy == n * Sum([k \in 1..n |-> X[k] * y[k]]) - Sx * Sy
    IN  IF Sxx = 0 THEN Div(Sy, n)
        ELSE Div(Sy * Sxx + Sxy * (n * x0 - Sx), n * Sxx)

\* Line 119.
next_year_of(slice) == SetMax(Years(slice)) + 1

\* Lines 114-139 with the guard len(crop_df) >= 2.
prediction_fit_from_two(slice) ==
    IF Len(slice) >= 2
    THEN [mode |-> "prediction", fitted |-> TRUE, warning |-> FALSE,
          next_year |-> next_year_of(slice),
          predicted_price |-> fit_predict(slice, next_year_of(slice))]
    ELSE [mode |-> "prediction", fitted |-> FALSE, warning |-> TRUE]

\* Lines 114-139.
prediction(slice) ==
    IF Len(slice) > 2
    THEN [mode |-> "prediction", fitted |-> TRUE, warning |-> FALSE,
          next_year |-> next_year_of(slice),
          predicted_price |-> fit_predict(slice, next_year_of(slice))]
    ELSE [mode |-> "prediction", fitted |-> FALSE, warning |-> TRUE]

\* Lines 142-149.
view_3d(tidy) == [mode |-> "3d", all_crops |-> SelectSeq(tidy, notna)]

Modes == {"overview", "prediction", "3d"}

\* Lines 75, 111, 142.
render(mode, tidy, slice) ==
    CASE mode = "overview" -> overview(slice)
      [] mode = "prediction" -> prediction(slice)
      [] mode = "3d" -> view_3d(tidy)

\* ------------------------------------------------------------ the script
VARIABLES csv, df_melt, selected_crop, year_range, choice, crop_df, view, status,
          loads, interactions

vars == <<csv, df_melt, selected_crop, year_range, choice, crop_df, view, status,
          loads, interactions>>

\* Lines 59-149 of one execution of farmer.py on the tidy table of lines
\* 50-57, with the widgets returning crop, range and mode; "default" asks for
\* a widget's default.  An empty tidy table makes int(min()) at line 64 raise,
\* and the run ends there.
page(tidy, crop, range, mode) ==
    IF tidy = <<>>
    THEN [df_melt |-> tidy, status |-> "error", selected_crop |-> None,
          year_range |-> <<0, 0>>, crop_df |-> <<>>, view |-> [mode |-> "none"]]
    ELSE LET c == IF crop = "default" THEN selectbox_default(tidy) ELSE crop
             yr == IF range = "default" THEN slider_default(tidy) ELSE range
             slice == filter_slice(tidy, c, yr)
         IN  [df_melt |-> tidy, status |-> "ok", selected_crop |-> c,
              year_range |-> yr, crop_df |-> slice, view |-> render(mode, tidy, slice)]

\* One execution of farmer.py from its first line to its last.
script(file, crop, range, mode) ==
    CHOOSE run \in {page(tidy, crop, range, mode) : tidy \in {load(file)}} : TRUE

\* Startup: the first execution, every widget at its default.  The file
\* MSP_extracted.csv holds an identifier column "Commodities" and year-columns
\* with distinct headers, one row per crop; it does not change afterwards.
Init ==
    /\ \E sh \in Shapes :
           \E cols \in InjSeqs(Headers, sh[2]) :
               \E rws \in [1..sh[1] -> [crop : CropNames, cells : [1..sh[2] -> Cells]]] :
                   csv = [columns |-> cols, rows |-> rws]
    /\ \E run \in {script(csv, "default", "default", "overview")} :
           /\ df_melt = run.df_melt
           /\ status = run.status
           /\ selected_crop = run.selected_crop
           /\ year_range = run.year_range
           /\ crop_df = run.crop_df
           /\ view = run.view
    /\ choice = "overview"
    /\ loads = 1
    /\ interactions = 0

\* Lines 50-57 behind a cache: a later execution reuses the first result.
load_count_cached(n) == n

\* Lines 50-57 stand at the top level of the script, outside any cache:
\* every execution of the script executes them once more.
load_count(n) == n + 1

\* A widget changes and the script is executed again from its first line.
\* After a failed startup there is nothing to interact with: the selectbox
\* has no options and the slider and the radio were never reached.
Rerun(crop, range, mode) ==
    /\ status = "ok"
    /\ interactions < MaxRuns
    /\ \E run \in {script(csv, crop, range, mode)} :
           /\ df_melt' = run.df_melt
           /\ status' = run.status
           /\ selected_crop' = run.selected_crop
           /\ year_range' = run.year_range
           /\ crop_df' = run.crop_df
           /\ view' = run.view
    /\ choice' = mode
    /\ loads' = load_count(loads)
    /\ interactions' = interactions + 1
    /\ UNCHANGED csv

\* The user picks another crop in the selectbox (line 62).
SelectCrop ==
    \E c \in SeqToSet(crop_options(df_melt)) :
        /\ c # selected_crop
        /\ Rerun(c, year_range, choice)

\* The user moves the year slider (lines 63-66).
MoveSlider ==
    \E lo \in Years(df_melt), hi \in Years(df_melt) :
        /\ lo <= hi
        /\ <<lo, hi>> # year_range
        /\ Rerun(selected_crop, <<lo, hi>>, choice)

\* The user picks another view (line 72).
SelectView ==
    \E m \in Modes :
        /\ m # choice
        /\ Rerun(selected_crop, year_range, m)

Next == SelectCrop \/ MoveSlider \/ SelectView

Spec == Init /\ [][Next]_vars

\* ================================================================ claims
Rows == 1..Len(csv.rows)

\* The year-columns of the file whose cleaned label passes the filter of line 55.
SurvivingCols ==
    {j \in 1..Len(csv.columns) :
        year_filter(clean_year(str_replace(csv.columns[j], <<"\n">>, <<" ">>)))}

At(i, j) == {k \in 1..Len(df_melt) : df_melt[k].row = i /\ df_melt[k].col = j}

\* C1: the tidy table has exactly (input rows) x (year-columns whose cleaned
\* label passes the filter) records, exactly one per (input row, surviving
\* column) pair and none for any other pair, carrying that row's crop, whether
\* the price cell is a number, text or missing.
C1_OneRecordPerPair ==
    /\ Len(df_melt) = Len(csv.rows) * Cardinality(SurvivingCols)
    /\ \A i \in Rows : \A j \in 1..Len(csv.columns) :
           /\ Cardinality(At(i, j)) = (IF j \in SurvivingCols THEN 1 ELSE 0)
           /\ \A k \in At(i, j) :
                  /\ df_melt[k].Commodities = <<csv.rows[i].crop>>
                  /\ df_melt[k].MSP = to_numeric(csv.rows[i].cells[j])

\* C1 witness: two rows, a surviving and a dropped column, and among the
\* surviving cells a number and one that is text or missing.
C1_Witness ==
    /\ Len(csv.rows) >= 2
    /\ SurvivingCols # {}
    /\ SurvivingCols # 1..Len(csv.columns)
    /\ \E i \in Rows, j \in SurvivingCols : csv.rows[i].cells[j] \in {<<>>, <<"x">>}
    /\ \E k \in 1..Len(df_melt) : df_melt[k].MSP # NaN

\* C2: every tidy record's cleaned label starts with four digit characters
\* and its Year_num is their value; a label that does not (one shorter than
\* four characters included) leaves no record in the tidy table.
C2_FourDigitLabels ==
    \A k \in 1..Len(df_melt) :
        /\ Len(df_melt[k].Year) >= 4
        /\ \A n \in 1..4 : df_melt[k].Year[n] \in Digits
        /\ df_melt[k].Year_num = astype_int(SubSeq(df_melt[k].Year, 1, 4))

\* C3 as claimed: the tidy records stand in row-major order, by input row and,
\* within a row, by year-column.
C3_RowMajor ==
    \A p, q \in 1..Len(df_melt) :
        p < q =>
            \/ df_melt[p].row < df_melt[q].row
            \/ df_melt[p].row = df_melt[q].row /\ df_melt[p].col < df_melt[q].col

\* C3 as amended: the tidy records stand in column-major order, by year-column
\* and, within a column, by input row.
C3_ColumnMajor ==
    \A p, q \in 1..Len(df_melt) :
        p < q =>
            \/ df_melt[p].col < df_melt[q].col
            \/ df_melt[p].col = df_melt[q].col /\ df_melt[p].row < df_melt[q].row

\* C3 witness: a tidy table with records of two rows and two columns.
C3_Witness ==
    \E p, q \in 1..Len(df_melt) :
        df_melt[p].row # df_melt[q].row /\ df_melt[p].col # df_melt[q].col

\* C4: the slice holds exactly the tidy records of the selected crop with a
\* non-null price and lo <= Year_num <= hi, both ends included.
C4_SliceExact ==
    status = "ok" =>
        LET wanted(r) ==
                /\ r.Commodities = selected_crop
                /\ r.MSP # NaN
                /\ year_range[1] <= r.Year_num
                /\ r.Year_num <= year_range[2]
        IN  crop_df = SelectSeq(df_melt, wanted)

\* C4 witness: after the slider moved, a record on the range's bound is in
\* the slice, a record of the crop outside the range is not, and neither is a
\* record of another crop inside the range.
C4_Witness ==
    /\ status = "ok"
    /\ interactions > 0
    /\ \E k \in 1..Len(crop_df) :
           crop_df[k].Year_num = year_range[1] \/ crop_df[k].Year_num = year_range[2]
    /\ \E k \in 1..Len(df_melt) :
           /\ df_melt[k].Commodities = selected_crop
           /\ df_melt[k].MSP # NaN
           /\ df_melt[k].Year_num > year_range[2] \/ df_melt[k].Year_num < year_range[1]
    /\ \E k \in 1..Len(df_melt) :
           /\ df_melt[k].Commodities # selected_crop
           /\ df_melt[k].MSP # NaN
           /\ df_melt[k].Year_num >= year_range[1]
           /\ df_melt[k].Year_num <= year_range[2]

\* C5: the slice is in ascending Year_num order whatever the order of the
\* year-columns, so that in the overview of a non-empty slice first_price is a
\* price of its smallest year and latest_price a price of its largest year.
C5_SliceSortedByYear ==
    status = "ok" =>
        /\ \A p, q \in 1..Len(crop_df) : p < q => crop_df[p].Year_num <= crop_df[q].Year_num
        /\ (view.mode = "overview" /\ crop_df # <<>>) =>
               /\ \E k \in 1..Len(crop_df) :
                      /\ crop_df[k].Year_num = SetMin(Years(crop_df))
                      /\ view.first_price = crop_df[k].MSP[1]
               /\ \E k \in 1..Len(crop_df) :
                      /\ crop_df[k].Year_num = SetMax(Years(crop_df))
                      /\ view.latest_price = crop_df[k].MSP[1]

\* C6: in the overview of an empty slice, latest, first, average and growth
\* are all 0 and the run ends without error.
C6_EmptyOverviewZero ==
    (choice = "overview" /\ crop_df = <<>> /\ df_melt # <<>>) =>
        /\ status = "ok"
        /\ view.mode = "overview"
        /\ view.latest_price = 0
        /\ view.first_price = 0
        /\ view.avg_price.num = 0 /\ view.avg_price.den = 1
        /\ view.growth.num = 0 /\ view.growth.den = 1

\* C6 witness: the overview of a crop without a price in the selected range.
C6_Witness == status = "ok" /\ choice = "overview" /\ crop_df = <<>>

\* C7: on a non-empty slice growth is (latest - first) / first * 100 when
\* first > 0 and 0 otherwise, and is never the result of a division by zero.
C7_GrowthGuarded ==
    (status = "ok" /\ view.mode = "overview" /\ crop_df # <<>>) =>
        /\ view.growth.den > 0
        /\ IF view.first_price > 0
           THEN view.growth.num * view.first_price
                    = (view.latest_price - view.first_price) * 100 * view.growth.den
           ELSE view.growth.num = 0

\* C7 witness: an overview whose first price is 0 and whose latest is not.
C7_Witness ==
    /\ status = "ok"
    /\ view.mode = "overview"
    /\ crop_df # <<>>
    /\ view.first_price = 0
    /\ view.latest_price > 0

\* C8: in prediction mode the fit runs exactly when the slice has at least 3
\* records; with 0, 1 or 2 records nothing is fitted or predicted and the
\* warning is shown, with 3 or more the warning is not shown.
C8_FitIffThree ==
    (status = "ok" /\ choice = "prediction") =>
        /\ view.mode = "prediction"
        /\ view.fitted <=> Len(crop_df) >= 3
        /\ view.warning <=> Len(crop_df) \in {0, 1, 2}
        /\ view.fitted => "predicted_price" \in DOMAIN view
        /\ view.warning => "predicted_price" \notin DOMAIN view

\* C8 witness: prediction mode on a slice of exactly 2 records.
C8_Witness == status = "ok" /\ choice = "prediction" /\ Len(crop_df) = 2 /\ view.warning

Fitted == status = "ok" /\ view.mode = "prediction" /\ view.fitted

\* C9 as claimed: whenever the prices of a fitted slice are a * Year_num + b
\* for some slope a and intercept b, next_year is the largest year plus one and
\* the predicted price is a * next_year + b.
C9_LinearPredicts ==
    Fitted =>
        \A a \in -2..2 :
            LET b == crop_df[1].MSP[1] - a * crop_df[1].Year_num
            IN  (\A k \in 1..Len(crop_df) : crop_df[k].MSP[1] = a * crop_df[k].Year_num + b) =>
                    /\ view.next_year = SetMax(Years(crop_df)) + 1
                    /\ view.predicted_price = Div(a * view.next_year + b, 1)

Collinear(slice) ==
    \A p, q, r \in 1..Len(slice) :
        (slice[q].MSP[1] - slice[p].MSP[1]) * (slice[r].Year_num - slice[p].Year_num)
            = (slice[r].MSP[1] - slice[p].MSP[1]) * (slice[q].Year_num - slice[p].Year_num)

\* C9 as amended: whenever a fitted slice holds at least two different years
\* and its prices lie on one line over Year_num, next_year is the largest year
\* plus one and the predicted price is that line's value at next_year (the
\* line through any two records of different years); when every record has the
\* same year, the predicted price is the mean price.
C9_LinearPredictsDistinctYears ==
    Fitted =>
        /\ view.next_year = SetMax(Years(crop_df)) + 1
        /\ Collinear(crop_df) =>
               \A p, q \in 1..Len(crop_df) :
                   crop_df[p].Year_num # crop_df[q].Year_num =>
                       view.predicted_price =
                           Div(crop_df[p].MSP[1] * (crop_df[q].Year_num - crop_df[p].Year_num)
                                   + (crop_df[q].MSP[1] - crop_df[p].MSP[1])
                                         * (view.next_year - crop_df[p].Year_num),
                               crop_df[q].Year_num - crop_df[p].Year_num)
        /\ Cardinality(Years(crop_df)) = 1 => view.predicted_price = mean(crop_df)

\* C9 witness: a fit on a slice of two different years whose prices lie on a
\* line that is not flat.
C9_Witness ==
    /\ Fitted
    /\ Cardinality(Years(crop_df)) >= 2
    /\ Collinear(crop_df)
    /\ \E p, q \in 1..Len(crop_df) : crop_df[p].MSP # crop_df[q].MSP

====
